---- MODULE Spec2Model ----
(***************************************************************************)
(* Model of scripts/import_to_postgres.py: the row sanitizer, the symbol   *)
(* registry, the staging loader and the per-file transaction driver, over  *)
(* a PostgreSQL store (READ COMMITTED, the server default that             *)
(* psycopg2.connect leaves in place).                                     *)
(***************************************************************************)
EXTENDS Integers, Sequences, FiniteSets, Bags, TLC

VARIABLES
    \* the data directory and the run
    csv_files,      \* sorted(DATA_DIR.glob("*.csv")): sequence of [symbol, rows]
    run,            \* number of the current execution of main()
    pc,             \* position of main()
    i,              \* index of the file of the loop (1-based)
    outcome,        \* how the run ended: "none", "ok", "cancelled", "error"
    \* the store (committed state of the server)
    symbols,        \* table symbols: set of [symbol, symbol_id]
    seq,            \* last value of the sequence behind symbols.symbol_id
    prices,         \* table historical_prices: bag of price rows
    \* the open transaction and session of main()'s connection
    tx_symbols,     \* symbols rows inserted, not yet committed
    tx_prices,      \* historical_prices rows inserted, not yet committed
    temp_prices,    \* the session's temp_prices table: NoTable or Table(rows)
    \* locals of main() and import_csv_file()
    symbol_id, buffer, rows_imported,
    total_rows, files_imported, files_skipped,
    \* concurrent callers of get_or_create_symbol (one transaction each)
    r_pc, r_ticker, r_id, r_tx,
    \* one call of is_valid_row: its five arguments and what it did
    in_row, verdict,
    \* the validation pass (scripts/validate_data.py)
    sources,        \* the files nasdaq_symbols.csv and failed_symbols.txt
    v_pc,           \* position of its main()
    v_i,            \* number of artifacts validate_csv_files has scanned
    stats,          \* the stats dictionary of validate_csv_files
    expected_symbols, failed_symbols,
    report,         \* what print_report has printed
    \* history, read by the properties only
    assigned,       \* every [symbol, symbol_id] a resolution has returned
    ingested        \* <<run, i>> of the files whose transaction has committed

driver_vars == <<csv_files, run, pc, i, outcome, prices, tx_symbols, tx_prices,
                 temp_prices, symbol_id, buffer, rows_imported,
                 total_rows, files_imported, files_skipped>>
registry_vars == <<symbols, seq>>
race_vars == <<r_pc, r_ticker, r_id, r_tx>>
row_vars == <<in_row, verdict>>
validate_vars == <<sources, v_pc, v_i, stats, expected_symbols, failed_symbols,
                   report>>
hist_vars == <<assigned, ingested>>
vars == <<driver_vars, registry_vars, race_vars, row_vars, validate_vars,
          hist_vars>>

----------------------------------------------------------------------------
(* Text cells.  A numeric cell is the text of a csv field: an optional     *)
(* sign, integer digits and the digits after the point (fd, empty when the *)
(* text has no point), or one of the words float() knows, or junk.         *)

Dec(neg, ip, fd) == [form |-> "dec", neg |-> neg, ip |-> ip, fd |-> fd]
Word(form, neg) == [form |-> form, neg |-> neg, ip |-> 0, fd |-> <<>>]

T_10_5 == Dec(FALSE, 10, <<5>>)                      \* "10.5"
T_11_0 == Dec(FALSE, 11, <<0>>)                      \* "11.0"
T_0 == Dec(FALSE, 0, <<>>)                           \* "0"
T_neg0 == Dec(TRUE, 0, <<0>>)                        \* "-0.0"
T_neg_half == Dec(TRUE, 0, <<5>>)                    \* "-0.5"
T_neg1 == Dec(TRUE, 1, <<>>)                         \* "-1"
T_100 == Dec(FALSE, 100, <<>>)                       \* "100"
T_12_5 == Dec(FALSE, 12, <<5>>)                      \* "12.5"
T_123_0 == Dec(FALSE, 123, <<0>>)                    \* "123.0"
T_below_max == Dec(FALSE, 999999999, <<9,9,9,9,9,9>>) \* "999999999.999999"
T_max == Dec(FALSE, 1000000000, <<>>)                \* "1000000000"
T_2e9 == Dec(FALSE, 2000000000, <<>>)                \* "2000000000"
T_nan == Word("nan", FALSE)                          \* "nan"
T_inf == Word("inf", FALSE)                          \* "inf"
T_neg_inf == Word("inf", TRUE)                       \* "-inf"
T_abc == Word("junk", FALSE)                         \* "abc", ""

RECURSIVE Micro(_)
\* the digits after the point, in millionths
Micro(fd) ==
    IF fd = <<>> THEN 0
    ELSE LET k == Len(fd) IN
         Micro(SubSeq(fd, 1, k - 1))
           + fd[k] * (CASE k = 1 -> 100000 [] k = 2 -> 10000 [] k = 3 -> 1000
                        [] k = 4 -> 100 [] k = 5 -> 10 [] OTHER -> 1)

\* float(text): a finite value, nan, an infinity, or ValueError ("err")
float_(t) ==
    CASE t.form = "dec" -> [cls |-> "fin", neg |-> t.neg, ip |-> t.ip,
                            micro |-> Micro(t.fd)]
      [] t.form = "nan" -> [cls |-> "nan", neg |-> FALSE, ip |-> 0, micro |-> 0]
      [] t.form = "inf" -> [cls |-> "inf", neg |-> t.neg, ip |-> 0, micro |-> 0]
      [] OTHER -> [cls |-> "err", neg |-> FALSE, ip |-> 0, micro |-> 0]

\* int(x) of a float: truncation toward zero; ValueError on nan,
\* OverflowError on an infinity
int_(x) ==
    CASE x.cls = "fin" -> [exc |-> "none", val |-> IF x.neg THEN 0 - x.ip ELSE x.ip]
      [] x.cls = "nan" -> [exc |-> "ValueError", val |-> 0]
      [] OTHER -> [exc |-> "OverflowError", val |-> 0]

MAX_PRICE == 1000000000

\* 0 <= p < MAX_PRICE on floats (every comparison with nan is False)
PriceInRange(p) ==
    CASE p.cls = "fin" -> /\ (~p.neg \/ (p.ip = 0 /\ p.micro = 0))
                          /\ (p.neg \/ p.ip < MAX_PRICE)
      [] OTHER -> FALSE

\* is_valid_row: "True", "False", or the exception that escapes it
is_valid_row_no_upper_bound(open_p, high, low, close, volume) ==
    LET prices_ == <<float_(open_p), float_(high), float_(low), float_(close)>>
        fvol == float_(volume)
        vol == int_(fvol)
    IN  IF \E k \in 1..4 : prices_[k].cls = "err" THEN "False"
        ELSE IF fvol.cls = "err" THEN "False"
        ELSE IF vol.exc = "ValueError" THEN "False"
        ELSE IF vol.exc = "OverflowError" THEN "OverflowError"
        ELSE IF (\A k \in 1..4 : prices_[k].cls = "fin" /\ ~prices_[k].neg)
                /\ vol.val >= 0
             THEN "True" ELSE "False"

is_valid_row(open_p, high, low, close, volume) ==
    LET prices_ == <<float_(open_p), float_(high), float_(low), float_(close)>>
        fvol == float_(volume)
        vol == int_(fvol)
    IN  IF \E k \in 1..4 : prices_[k].cls = "err" THEN "False"
        ELSE IF fvol.cls = "err" THEN "False"
        ELSE IF vol.exc = "ValueError" THEN "False"
        ELSE IF vol.exc = "OverflowError" THEN "OverflowError"
        ELSE IF (\A k \in 1..4 : PriceInRange(prices_[k])) /\ vol.val >= 0
             THEN "True" ELSE "False"

----------------------------------------------------------------------------
(* Date cells.  The text of a Date field is its space-separated parts; a   *)
(* part shaped YYYY-MM-DD is Ymd(y, m, d), any other part is Part(text).   *)

Ymd(y, m, d) == [shape |-> "ymd", y |-> y, m |-> m, d |-> d]
Part(text) == [shape |-> text, y |-> 0, m |-> 0, d |-> 0]

\* date_str.split(" ")[0]
parse_date(date_str) == date_str[1]

DaysIn(y, m) ==
    CASE m \in {4, 6, 9, 11} -> 30
      [] m = 2 -> IF (y % 4 = 0 /\ y % 100 # 0) \/ y % 400 = 0 THEN 29 ELSE 28
      [] OTHER -> 31

\* what the store's DATE column makes of a text: a calendar date or an error
date_in(text) ==
    IF text.shape = "ymd" /\ text.y \in 1..9999 /\ text.m \in 1..12
       /\ text.d \in 1..DaysIn(text.y, text.m)
    THEN [ok |-> TRUE, val |-> <<text.y, text.m, text.d>>]
    ELSE [ok |-> FALSE, val |-> <<0, 0, 0>>]

\* NUMERIC(18, 6) input: a decimal is accepted (minus zero is zero), any
\* other text is refused here (NaN passes no validation before it)
numeric_in(t) ==
    IF t.form = "dec"
    THEN [ok |-> TRUE,
          val |-> [neg |-> t.neg /\ ~(t.ip = 0 /\ Micro(t.fd) = 0),
                   ip |-> t.ip, micro |-> Micro(t.fd)]]
    ELSE [ok |-> FALSE, val |-> [neg |-> FALSE, ip |-> 0, micro |-> 0]]

\* BIGINT input: an optional sign and digits, nothing else
int8_in(t) ==
    IF t.form = "dec" /\ t.fd = <<>>
    THEN [ok |-> TRUE, val |-> IF t.neg THEN 0 - t.ip ELSE t.ip]
    ELSE [ok |-> FALSE, val |-> 0]

----------------------------------------------------------------------------
(* The data directory.  A csv row is the tuple of its cells                *)
(* <<Date, Symbol, Open, High, Low, Close, Volume>>; the header line is    *)
(* not part of rows (import_csv_file skips it unread).                     *)

MaxRows == 2
MaxFiles == 2
MaxRuns == 2

TickerNames == <<"AAA", "BBB", "CCC", "DDD">>

D1 == <<Ymd(2000, 1, 1), Part("00:00:00-05:00")>>   \* "2000-01-01 00:00:00-05:00"
D2 == <<Ymd(2000, 1, 2)>>                           \* "2000-01-02"
DBad == <<Part("not-a-date")>>                      \* "not-a-date"

\* the Symbol cell is filled in with the file's ticker by DirsOf
Row(date, close, volume) == <<date, "", T_10_5, T_11_0, T_0, close, volume>>

OfSymbol(rows, ticker) ==
    [k \in 1..Len(rows) |->
        IF Len(rows[k]) >= 2 THEN [rows[k] EXCEPT ![2] = ticker] ELSE rows[k]]

RowVocab ==
    { Row(D1, T_10_5, T_100),      \* accepted
      Row(D1, T_11_0, T_100),      \* accepted, same day, another close
      Row(D2, T_10_5, T_100),      \* accepted
      Row(D2, T_2e9, T_100),       \* close out of range
      Row(D2, T_10_5, T_inf),      \* infinite volume
      Row(DBad, T_10_5, T_100),    \* date that is no date
      Row(D2, T_10_5, T_12_5),     \* volume with a fraction
      <<D2, "">> }                 \* fewer than 7 cells

RECURSIVE SeqsOf(_, _)
\* the sequences of n elements of S
SeqsOf(S, n) ==
    IF n = 0 THEN {<<>>}
    ELSE {Append(q, x) : q \in SeqsOf(S, n - 1), x \in S}

RECURSIVE DirsOf(_, _)
\* sorted(DATA_DIR.glob("*.csv")) with symbol = csv_path.stem: the
\* directories of k files that hold at most `budget` rows together
DirsOf(k, budget) ==
    IF k = 0 THEN {<<>>}
    ELSE UNION { { Append(d, [symbol |-> TickerNames[k],
                                rows |-> OfSymbol(c, TickerNames[k])]) :
                     d \in DirsOf(k - 1, budget - n), c \in SeqsOf(RowVocab, n) } :
                 n \in 0..budget }

Directories == DirsOf(MaxFiles, MaxRows)

\* the end-to-end scenario: AAA holds 30 rows dated 2000-01-01 to 2000-01-30,
\* one of them with an out-of-range close; BBB holds its header only
E2ERows == 30
E2EBadRow == 15
E2ERow(k) ==
    <<<<Ymd(2000, 1, k), Part("00:00:00-05:00")>>, "AAA", T_10_5, T_11_0, T_0,
      IF k = E2EBadRow THEN T_2e9 ELSE T_10_5, T_100>>
E2EDirectory ==
    <<[symbol |-> "AAA", rows |-> [k \in 1..E2ERows |-> E2ERow(k)]],
      [symbol |-> "BBB", rows |-> <<>>]>>

\* the session has no table temp_prices; Table(rows) is the table and its rows
NoTable == [exists |-> FALSE, rows |-> <<>>]
Table(rows) == [exists |-> TRUE, rows |-> rows]
NoId == 0

----------------------------------------------------------------------------
(* scripts/validate_data.py: the values it works on.                       *)

EXPECTED_HEADER == <<"Date", "Symbol", "Open", "High", "Low", "Close", "Volume">>
ShortHeader == <<"Date", "Open", "High", "Low", "Close">>

\* an optional value: None, or a value
None == [some |-> FALSE, val |-> <<>>]
Some(x) == [some |-> TRUE, val |-> x]

\* a source file that does not exist
Absent == [exists |-> FALSE, column |-> "", tickers |-> {}, lines |-> <<>>]

\* the stats dictionary as validate_csv_files creates it
EmptyStats ==
    [total_files |-> 0, total_rows |-> 0, valid_files |-> 0,
     empty_data_files |-> <<>>, header_mismatch |-> <<>>, parse_errors |-> <<>>,
     min_date |-> None, max_date |-> None,
     rows_per_file |-> [s \in {} |-> 0],
     date_range_per_symbol |-> [s \in {} |-> <<>>]]

NoReport == [printed |-> FALSE]

----------------------------------------------------------------------------
(* import_csv_file: the sanitizing loop, then the staging statements.      *)

RECURSIVE Sanitize(_, _)
\* the for loop over reader: the lines written to buffer, or the exception
\* that leaves the loop
Sanitize(rows, sid) ==
    IF rows = <<>> THEN [exc |-> "none", buffer |-> <<>>]
    ELSE LET row == Head(rows) IN
         IF Len(row) < 7 THEN Sanitize(Tail(rows), sid)
         ELSE LET valid == is_valid_row(row[3], row[4], row[5], row[6], row[7]) IN
              CASE valid = "OverflowError" ->
                     [exc |-> "OverflowError", buffer |-> <<>>]
                [] valid = "False" -> Sanitize(Tail(rows), sid)
                [] OTHER ->
                     LET rest == Sanitize(Tail(rows), sid)
                         line == <<sid, parse_date(row[1]), row[3], row[4],
                                   row[5], row[6], row[7]>>
                     IN  IF rest.exc # "none" THEN rest
                         ELSE [rest EXCEPT !.buffer = <<line>> \o rest.buffer]

\* COPY of one buffer line into temp_prices: every column's input conversion
LineOk(line) ==
    /\ date_in(line[2]).ok
    /\ \A k \in 3..6 : numeric_in(line[k]).ok
    /\ int8_in(line[7]).ok

TempRow(line) ==
    [symbol_id |-> line[1], trade_date |-> date_in(line[2]).val,
     open |-> numeric_in(line[3]).val, high |-> numeric_in(line[4]).val,
     low |-> numeric_in(line[5]).val, close |-> numeric_in(line[6]).val,
     volume |-> int8_in(line[7]).val]

Key(r) == <<r.symbol_id, r.trade_date>>

Range(q) == {q[k] : k \in 1..Len(q)}

\* INSERT INTO historical_prices SELECT ... FROM temp_prices
\* ON CONFLICT (symbol_id, trade_date) DO NOTHING: the sets of rows the
\* statement may insert over the rows `present`.  A row whose key is present,
\* or was inserted earlier by the same statement, is skipped; the order in
\* which the SELECT yields the staged rows is the server's.
RECURSIVE BagOfSeq(_)
BagOfSeq(q) ==
    IF q = <<>> THEN EmptyBag ELSE BagOfSeq(Tail(q)) (+) SetToBag({Head(q)})

RECURSIVE OnePerKey(_, _)
\* the ways to keep one row of `new` for each key of `keys`
OnePerKey(keys, new) ==
    IF keys = {} THEN {{}}
    ELSE LET k == CHOOSE x \in keys : TRUE IN
         { rest \cup {r} : rest \in OnePerKey(keys \ {k}, new),
                           r \in {n \in new : Key(n) = k} }

MergeInserts_no_conflict_skip(present, staged) == {BagOfSeq(staged)}

MergeInserts(present, staged) ==
    LET new == {r \in Range(staged) : \A p \in BagToSet(present) : Key(p) # Key(r)}
    IN  {SetToBag(ins) : ins \in OnePerKey({Key(r) : r \in new}, new)}

----------------------------------------------------------------------------
(* main(): one transaction per file.                                       *)

InTxn == pc \in {"insert_symbol", "select_symbol", "read_csv", "create_temp",
                 "copy_from", "merge", "count", "commit"}
Statement == pc \in {"insert_symbol", "select_symbol", "create_temp",
                     "copy_from", "merge", "commit"}

File == csv_files[i]

\* rows of symbols this connection sees: committed ones and its own
Visible == symbols \cup tx_symbols

\* the default of symbols.symbol_id: the next value of its sequence
NextVal == seq + 1

\* SELECT symbol_id FROM symbols WHERE symbol = %s, over the rows `seen`
FoundRows_no_where(seen, ticker) == seen

FoundRows(seen, ticker) == {s \in seen : s.symbol = ticker}

Rollback_keeps_writes ==
    /\ symbols' = symbols \cup tx_symbols
    /\ prices' = prices (+) tx_prices
    /\ tx_symbols' = {}
    /\ tx_prices' = EmptyBag
    /\ temp_prices' = NoTable
    /\ UNCHANGED ingested

\* conn.__exit__ with an exception: ROLLBACK (the temp table goes with it)
Rollback ==
    /\ tx_symbols' = {}
    /\ tx_prices' = EmptyBag
    /\ temp_prices' = NoTable
    /\ UNCHANGED <<symbols, prices, ingested>>

\* an exception leaves the with block: rollback, then `except Exception`
\* prints it and raises it again; finally closes the connection.  The
\* locals of the frames the exception leaves are gone.
Raise ==
    /\ Rollback
    /\ symbol_id' = NoId /\ buffer' = <<>> /\ rows_imported' = 0
    /\ pc' = "crashed"
    /\ outcome' = "error"

Locals == <<symbol_id, buffer, rows_imported>>
Counters == <<total_rows, files_imported, files_skipped>>
Others == <<csv_files, run, race_vars, row_vars, validate_vars>>
TxState == <<tx_symbols, tx_prices, temp_prices>>
Store == <<symbols, prices>>

\* psycopg2.connect and the counters' initialisation
Connect ==
    /\ pc = "connect"
    /\ pc' = "loop"
    /\ i' = 0
    /\ total_rows' = 0 /\ files_imported' = 0 /\ files_skipped' = 0
    /\ UNCHANGED <<outcome, Store, seq, TxState, Locals, Others, hist_vars>>

\* psycopg2.connect raises OperationalError (the store cannot be reached):
\* the call is outside the try block, so the exception ends the process with
\* a traceback before the loop is entered
ConnectError ==
    /\ pc = "connect"
    /\ pc' = "crashed"
    /\ outcome' = "error"
    /\ UNCHANGED <<i, Store, seq, TxState, Locals, Counters, Others, hist_vars>>

\* for i, csv_path in enumerate(csv_files): with conn, with conn.cursor()
NextFile ==
    /\ pc = "loop"
    /\ IF i < Len(csv_files)
       THEN /\ i' = i + 1
            /\ pc' = "insert_symbol"
            /\ UNCHANGED outcome
       ELSE /\ pc' = "exited"
            /\ outcome' = "ok"
            /\ UNCHANGED i
    /\ UNCHANGED <<Store, seq, TxState, Locals, Counters, Others, hist_vars>>

\* get_or_create_symbol, first statement: INSERT ... ON CONFLICT (symbol)
\* DO NOTHING RETURNING symbol_id.  The default of symbol_id draws from the
\* sequence before the conflict is looked for.
InsertSymbol ==
    /\ pc = "insert_symbol"
    /\ seq' = NextVal
    /\ IF \E s \in Visible : s.symbol = File.symbol
       THEN /\ pc' = "select_symbol"
            /\ UNCHANGED <<tx_symbols, symbol_id, assigned>>
       ELSE /\ tx_symbols' = tx_symbols \cup
                    {[symbol |-> File.symbol, symbol_id |-> NextVal]}
            /\ symbol_id' = NextVal
            /\ assigned' = assigned \cup
                    {[symbol |-> File.symbol, symbol_id |-> NextVal]}
            /\ pc' = "read_csv"
    /\ UNCHANGED <<i, outcome, Store, tx_prices, temp_prices, buffer,
                   rows_imported, Counters, Others, ingested>>

\* get_or_create_symbol, second statement: SELECT symbol_id FROM symbols
\* WHERE symbol = %s, then cursor.fetchone()[0]
SelectSymbol ==
    /\ pc = "select_symbol"
    /\ LET found == FoundRows(Visible, File.symbol) IN
       IF found = {}
       THEN /\ Raise
            /\ UNCHANGED assigned
       ELSE /\ \E s \in found :
                 /\ symbol_id' = s.symbol_id
                 /\ assigned' = assigned \cup {s}
            /\ pc' = "read_csv"
            /\ UNCHANGED <<outcome, Store, TxState, ingested, buffer, rows_imported>>
    /\ UNCHANGED <<i, seq, Counters, Others>>

\* import_csv_file up to `if rows_imported == 0: return 0`
ReadCsv ==
    /\ pc = "read_csv"
    /\ LET read == Sanitize(File.rows, symbol_id) IN
       IF read.exc # "none"
       THEN Raise
       ELSE /\ buffer' = read.buffer
            /\ rows_imported' = Len(read.buffer)
            /\ pc' = IF Len(read.buffer) = 0 THEN "count" ELSE "create_temp"
            /\ UNCHANGED <<outcome, Store, TxState, ingested, symbol_id>>
    /\ UNCHANGED <<i, seq, Counters, Others, assigned>>

\* CREATE TEMP TABLE temp_prices (...) ON COMMIT DROP
CreateTemp ==
    /\ pc = "create_temp"
    /\ IF temp_prices # NoTable
       THEN Raise
       ELSE /\ temp_prices' = Table(<<>>)
            /\ pc' = "copy_from"
            /\ UNCHANGED <<outcome, Store, tx_symbols, tx_prices, ingested, Locals>>
    /\ UNCHANGED <<i, seq, Counters, Others, assigned>>

\* cursor.copy_from(buffer, 'temp_prices', ...): all lines or an error
CopyFrom ==
    /\ pc = "copy_from"
    /\ IF \A k \in 1..Len(buffer) : LineOk(buffer[k])
       THEN /\ temp_prices' = Table([k \in 1..Len(buffer) |-> TempRow(buffer[k])])
            /\ pc' = "merge"
            /\ UNCHANGED <<outcome, Store, tx_symbols, tx_prices, ingested, Locals>>
       ELSE Raise
    /\ UNCHANGED <<i, seq, Counters, Others, assigned>>

Merge_upsert ==
    /\ pc = "merge"
    /\ \E ins \in MergeInserts(EmptyBag, temp_prices.rows) :
         tx_prices' = tx_prices (+) ins
    /\ prices' = SetToBag({r \in BagToSet(prices) :
                             \A t \in Range(temp_prices.rows) : Key(t) # Key(r)})
    /\ buffer' = <<>>
    /\ pc' = "count"
    /\ UNCHANGED <<i, outcome, symbols, seq, tx_symbols, temp_prices, symbol_id,
                   rows_imported, Counters, Others, hist_vars>>

Merge_returns_inserted ==
    /\ pc = "merge"
    /\ \E ins \in MergeInserts(prices (+) tx_prices, temp_prices.rows) :
         /\ tx_prices' = tx_prices (+) ins
         /\ rows_imported' = BagCardinality(ins)
    /\ buffer' = <<>>
    /\ pc' = "count"
    /\ UNCHANGED <<i, outcome, Store, seq, tx_symbols, temp_prices, symbol_id,
                   Counters, Others, hist_vars>>

\* the INSERT ... SELECT ... ON CONFLICT DO NOTHING, then return rows_imported
Merge ==
    /\ pc = "merge"
    /\ \E ins \in MergeInserts(prices (+) tx_prices, temp_prices.rows) :
         tx_prices' = tx_prices (+) ins
    /\ buffer' = <<>>
    /\ pc' = "count"
    /\ UNCHANGED <<i, outcome, Store, seq, tx_symbols, temp_prices, symbol_id,
                   rows_imported, Counters, Others, hist_vars>>

Count_always_imported ==
    /\ pc = "count"
    /\ total_rows' = total_rows + rows_imported
    /\ files_imported' = files_imported + 1
    /\ UNCHANGED files_skipped
    /\ pc' = "commit"
    /\ UNCHANGED <<i, outcome, Store, seq, TxState, Locals, Others, hist_vars>>

\* if rows > 0: total_rows += rows; files_imported += 1
\* else: files_skipped += 1
Count ==
    /\ pc = "count"
    /\ IF rows_imported > 0
       THEN /\ total_rows' = total_rows + rows_imported
            /\ files_imported' = files_imported + 1
            /\ UNCHANGED files_skipped
       ELSE /\ files_skipped' = files_skipped + 1
            /\ UNCHANGED <<total_rows, files_imported>>
    /\ pc' = "commit"
    /\ UNCHANGED <<i, outcome, Store, seq, TxState, Locals, Others, hist_vars>>

Commit_keeps_temp ==
    /\ pc = "commit"
    /\ symbols' = symbols \cup tx_symbols
    /\ prices' = prices (+) tx_prices
    /\ tx_symbols' = {}
    /\ tx_prices' = EmptyBag
    /\ ingested' = ingested \cup {<<run, i>>}
    /\ symbol_id' = NoId /\ rows_imported' = 0
    /\ pc' = "loop"
    /\ UNCHANGED <<i, outcome, seq, buffer, temp_prices, Counters, Others, assigned>>

\* conn.__exit__ without an exception: COMMIT; ON COMMIT DROP removes the
\* temp table
Commit ==
    /\ pc = "commit"
    /\ symbols' = symbols \cup tx_symbols
    /\ prices' = prices (+) tx_prices
    /\ tx_symbols' = {}
    /\ tx_prices' = EmptyBag
    /\ temp_prices' = NoTable
    /\ ingested' = ingested \cup {<<run, i>>}
    /\ symbol_id' = NoId /\ rows_imported' = 0
    /\ pc' = "loop"
    /\ UNCHANGED <<i, outcome, seq, buffer, Counters, Others, assigned>>

\* a statement fails in the store (connection lost, timeout): psycopg2.Error
StorageError ==
    /\ Statement
    /\ Raise
    /\ UNCHANGED <<i, seq, Counters, Others, assigned>>

KeyboardInterrupt_swallowed ==
    /\ pc = "loop" \/ InTxn
    /\ Rollback
    /\ symbol_id' = NoId /\ buffer' = <<>> /\ rows_imported' = 0
    /\ pc' = "loop"
    /\ outcome' = "cancelled"
    /\ UNCHANGED <<i, seq, Counters, Others, assigned>>

\* the operator's Ctrl-C, delivered between two bytecodes of the loop: inside
\* the with block conn.__exit__ rolls back; `except KeyboardInterrupt` then
\* prints, finally closes the connection and the summary is printed
KeyboardInterrupt ==
    /\ pc = "loop" \/ InTxn
    /\ Rollback
    /\ symbol_id' = NoId /\ buffer' = <<>> /\ rows_imported' = 0
    /\ pc' = "exited"
    /\ outcome' = "cancelled"
    /\ UNCHANGED <<i, seq, Counters, Others, assigned>>

\* main() is started again over the same directory
Rerun ==
    /\ pc \in {"exited", "crashed"}
    /\ run < MaxRuns
    /\ run' = run + 1
    /\ pc' = "connect"
    /\ outcome' = "none"
    /\ i' = 0
    /\ UNCHANGED <<csv_files, Store, seq, TxState, Locals, Counters, race_vars,
                   row_vars, validate_vars, hist_vars>>

InitStore ==
    /\ symbols = {} /\ seq = 0 /\ prices = EmptyBag
    /\ assigned = {} /\ ingested = {}

InitDriver ==
    /\ run = 1 /\ pc = "connect" /\ i = 0 /\ outcome = "none"
    /\ tx_symbols = {} /\ tx_prices = EmptyBag /\ temp_prices = NoTable
    /\ symbol_id = NoId /\ buffer = <<>> /\ rows_imported = 0
    /\ total_rows = 0 /\ files_imported = 0 /\ files_skipped = 0

InitRace ==
    /\ r_pc = <<>> /\ r_ticker = <<>> /\ r_id = <<>> /\ r_tx = <<>>

InitRow ==
    /\ in_row = <<>> /\ verdict = "none"

\* the validation pass is not running
InitValidate ==
    /\ sources = [symbols_file |-> Absent, failed_file |-> Absent]
    /\ v_pc = "idle" /\ v_i = 0
    /\ stats = EmptyStats
    /\ expected_symbols = {} /\ failed_symbols = {}
    /\ report = NoReport

Init ==
    /\ csv_files \in Directories \cup {E2EDirectory}
    /\ InitStore /\ InitDriver /\ InitRace /\ InitRow /\ InitValidate

Next ==
    \/ Connect
    \/ ConnectError
    \/ NextFile
    \/ InsertSymbol
    \/ SelectSymbol
    \/ ReadCsv
    \/ CreateTemp
    \/ CopyFrom
    \/ Merge
    \/ Count
    \/ Commit
    \/ StorageError
    \/ KeyboardInterrupt
    \/ Rerun

Spec == Init /\ [][Next]_vars

----------------------------------------------------------------------------
(* Concurrent resolutions: NumCallers connections, each running            *)
(* get_or_create_symbol inside the transaction of its file, which then     *)
(* commits or (the file failed, or the run was cancelled) rolls back.      *)

NumCallers == 3
Callers == 1..NumCallers
RaceTickers == {"AAA", "BBB"}

\* rows of symbols that transactions other than c's have inserted and not
\* yet committed or rolled back
Pending(c, ticker) ==
    UNION {{s \in r_tx[d] : s.symbol = ticker} : d \in Callers \ {c}}

\* INSERT ... ON CONFLICT (symbol) DO NOTHING meets a row of the same symbol
\* inserted by a transaction still in progress: the statement waits for that
\* transaction to end
Blocked_never(c) == FALSE

Blocked(c) == Pending(c, r_ticker[c]) # {}

RaceInsert(c) ==
    /\ r_pc[c] = "insert_symbol"
    /\ ~Blocked(c)
    /\ seq' = NextVal
    /\ IF \E s \in symbols \cup r_tx[c] : s.symbol = r_ticker[c]
       THEN /\ r_pc' = [r_pc EXCEPT ![c] = "select_symbol"]
            /\ UNCHANGED <<r_tx, r_id, assigned>>
       ELSE /\ r_tx' = [r_tx EXCEPT ![c] =
                          @ \cup {[symbol |-> r_ticker[c], symbol_id |-> NextVal]}]
            /\ r_id' = [r_id EXCEPT ![c] = NextVal]
            /\ assigned' = assigned \cup
                    {[symbol |-> r_ticker[c], symbol_id |-> NextVal]}
            /\ r_pc' = [r_pc EXCEPT ![c] = "returned"]
    /\ UNCHANGED <<driver_vars, symbols, r_ticker, row_vars, validate_vars,
                   ingested>>

\* the fallback SELECT, under READ COMMITTED: a new snapshot, so every row
\* committed by now is seen; fetchone()[0] raises TypeError on no row
RaceSelect(c) ==
    /\ r_pc[c] = "select_symbol"
    /\ LET found == FoundRows(symbols \cup r_tx[c], r_ticker[c]) IN
       IF found = {}
       THEN /\ r_pc' = [r_pc EXCEPT ![c] = "failed"]
            /\ r_tx' = [r_tx EXCEPT ![c] = {}]
            /\ UNCHANGED <<r_id, assigned>>
       ELSE /\ \E s \in found :
                 /\ r_id' = [r_id EXCEPT ![c] = s.symbol_id]
                 /\ assigned' = assigned \cup {s}
            /\ r_pc' = [r_pc EXCEPT ![c] = "returned"]
            /\ UNCHANGED r_tx
    /\ UNCHANGED <<driver_vars, registry_vars, r_ticker, row_vars, validate_vars,
                   ingested>>

\* the caller's `with conn` ends without an exception
RaceCommit(c) ==
    /\ r_pc[c] = "returned"
    /\ symbols' = symbols \cup r_tx[c]
    /\ r_tx' = [r_tx EXCEPT ![c] = {}]
    /\ r_pc' = [r_pc EXCEPT ![c] = "committed"]
    /\ UNCHANGED <<driver_vars, seq, r_ticker, r_id, row_vars, validate_vars,
                   hist_vars>>

\* the caller's `with conn` ends with an exception
RaceRollback(c) ==
    /\ r_pc[c] \in {"select_symbol", "returned"}
    /\ r_tx' = [r_tx EXCEPT ![c] = {}]
    /\ r_pc' = [r_pc EXCEPT ![c] = "rolled_back"]
    /\ UNCHANGED <<driver_vars, registry_vars, r_ticker, r_id, row_vars,
                   validate_vars, hist_vars>>

InitCallers ==
    /\ r_pc = [c \in Callers |-> "insert_symbol"]
    /\ r_ticker \in [Callers -> RaceTickers]
    /\ r_id = [c \in Callers |-> NoId]
    /\ r_tx = [c \in Callers |-> {}]

InitSpecRace ==
    /\ csv_files = <<>>
    /\ InitStore /\ InitDriver /\ InitCallers /\ InitRow /\ InitValidate

NextRace ==
    \E c \in Callers :
        \/ RaceInsert(c)
        \/ RaceSelect(c)
        \/ RaceCommit(c)
        \/ RaceRollback(c)

SpecRace == InitSpecRace /\ [][NextRace]_vars

----------------------------------------------------------------------------
(* One call of is_valid_row, over every combination of five field texts.   *)

PriceTexts == {T_10_5, T_0, T_neg0, T_neg_half, T_below_max, T_max, T_2e9,
               T_nan, T_inf, T_neg_inf, T_abc}
VolumeTexts == {T_100, T_0, T_neg1, T_neg_half, T_12_5, T_123_0, T_nan, T_inf,
                T_neg_inf, T_abc}

CheckRow ==
    /\ verdict = "none"
    /\ verdict' = is_valid_row(in_row[1], in_row[2], in_row[3], in_row[4], in_row[5])
    /\ UNCHANGED <<in_row, driver_vars, registry_vars, race_vars, validate_vars,
                   hist_vars>>

InitSpecRow ==
    /\ in_row \in PriceTexts \X PriceTexts \X PriceTexts \X PriceTexts \X VolumeTexts
    /\ verdict = "none"
    /\ csv_files = <<>>
    /\ InitStore /\ InitDriver /\ InitRace /\ InitValidate

NextRow == CheckRow

SpecRow == InitSpecRow /\ [][NextRow]_vars

----------------------------------------------------------------------------
(* scripts/validate_data.py: the validation pass over the artifacts.  An    *)
(* artifact is [symbol, first, rows, fault]: first is what next(reader,     *)
(* None) yields, rows what list(reader) yields after it, and fault tells    *)
(* where reading the file raises (an unreadable encoding): "head" on the    *)
(* first read, "body" on the reads after the header, "none" nowhere.        *)

VRowVocab ==
    { Row(D1, T_10_5, T_100),      \* a row the sanitizer accepts
      Row(D2, T_2e9, T_100),       \* close out of range
      Row(DBad, T_10_5, T_100),    \* date that is no date
      <<>> }                       \* blank line

Shapes(rows) ==
    LET some == {[first |-> Some(h), fault |-> "none"] :
                    h \in {EXPECTED_HEADER, ShortHeader}}
    IN  IF rows # <<>> THEN some
        ELSE some \cup {[first |-> None, fault |-> "none"],
                        [first |-> None, fault |-> "head"],
                        [first |-> Some(EXPECTED_HEADER), fault |-> "body"],
                        [first |-> Some(ShortHeader), fault |-> "body"]}

RECURSIVE ArtifactsOf(_, _)
\* the directories of k artifacts that hold at most `budget` rows together
ArtifactsOf(k, budget) ==
    IF k = 0 THEN {<<>>}
    ELSE UNION { UNION { { Append(d, [symbol |-> TickerNames[k],
                                        rows |-> OfSymbol(c, TickerNames[k]),
                                        first |-> sh.first, fault |-> sh.fault]) :
                             d \in ArtifactsOf(k - 1, budget - n),
                             sh \in Shapes(c) } :
                         c \in SeqsOf(VRowVocab, n) } :
                 n \in 0..budget }

\* the artifacts of the end-to-end scenario, each under the expected header
E2EArtifacts ==
    [k \in 1..Len(E2EDirectory) |->
        [symbol |-> E2EDirectory[k].symbol, rows |-> E2EDirectory[k].rows,
         first |-> Some(EXPECTED_HEADER), fault |-> "none"]]

Reverse(q) == [k \in 1..Len(q) |-> q[Len(q) + 1 - k]]

\* list(DATA_DIR.glob("*.csv")): the artifacts in the order the file system
\* yields them
Listings ==
    LET dirs == ArtifactsOf(MaxFiles, MaxRows) \cup {E2EArtifacts}
    IN  dirs \cup {Reverse(d) : d \in dirs}

SymbolsFile(column, tickers) ==
    [exists |-> TRUE, column |-> column, tickers |-> tickers, lines |-> <<>>]
FailedFile(lines) ==
    [exists |-> TRUE, column |-> "", tickers |-> {}, lines |-> lines]

SmallUniverse == {"AAA", "BBB", "CCC", "DDD"}
BigUniverse ==
    SmallUniverse \cup
    {"E01", "E02", "E03", "E04", "E05", "E06", "E07", "E08", "E09", "E10", "E11",
     "E12", "E13", "E14", "E15", "E16", "E17", "E18", "E19", "E20", "E21"}

SymbolsFiles ==
    {Absent, SymbolsFile("Symbol", SmallUniverse), SymbolsFile("symbol", SmallUniverse),
     SymbolsFile("Ticker", SmallUniverse), SymbolsFile("Symbol", BigUniverse)}
FailedFiles ==
    {Absent, FailedFile(<<>>), FailedFile(<<"DDD", "">>), FailedFile(<<"AAA">>)}

\* csv.DictReader over SYMBOLS_FILE, when it exists: the column Symbol or symbol
load_expected_symbols(f) ==
    IF ~f.exists THEN {}
    ELSE IF f.column \in {"Symbol", "symbol"} THEN f.tickers ELSE {}

\* the stripped, non-empty lines of FAILED_FILE, when it exists
load_failed_symbols(f) ==
    IF ~f.exists THEN {}
    ELSE {f.lines[k] : k \in 1..Len(f.lines)} \ {""}

\* datetime.strptime(date_str, "%Y-%m-%d"): a date, or None for ValueError
strptime(part) ==
    IF part.shape = "ymd" /\ part.y \in 1..9999 /\ part.m \in 1..12
       /\ part.d \in 1..DaysIn(part.y, part.m)
    THEN Some(<<part.y, part.m, part.d>>)
    ELSE None

\* a < b on dates
Before(a, b) ==
    \/ a[1] < b[1]
    \/ a[1] = b[1] /\ a[2] < b[2]
    \/ a[1] = b[1] /\ a[2] = b[2] /\ a[3] < b[3]

min_(dates) == CHOOSE d \in dates : \A e \in dates : ~Before(e, d)
max_(dates) == CHOOSE d \in dates : \A e \in dates : ~Before(d, e)

\* the list `dates` of a file: the rows whose first cell starts with a date
\* (IndexError on a blank line and ValueError on other text are passed over)
Dates(rows) ==
    {strptime(rows[k][1][1]).val :
        k \in {n \in 1..Len(rows) : Len(rows[n]) >= 1 /\ strptime(rows[n][1][1]).some}}

Put(f, key, v) == [x \in DOMAIN f \cup {key} |-> IF x = key THEN v ELSE f[x]]

HeaderMatches_any(header) == TRUE

\* not (header != EXPECTED_HEADER)
HeaderMatches(header) == header = Some(EXPECTED_HEADER)

\* one iteration of the for loop of validate_csv_files
ScanFile(st, file) ==
    IF file.fault = "head"
    THEN [st EXCEPT !.parse_errors = Append(@, file.symbol)]
    ELSE IF ~HeaderMatches(file.first)
    THEN [st EXCEPT !.header_mismatch = Append(@, <<file.symbol, file.first>>)]
    ELSE IF file.fault = "body"
    THEN [st EXCEPT !.parse_errors = Append(@, file.symbol)]
    ELSE LET row_count == Len(file.rows)
             counted == [st EXCEPT !.rows_per_file = Put(@, file.symbol, row_count),
                                   !.total_rows = @ + row_count]
             dates == Dates(file.rows)
             min_d == min_(dates)
             max_d == max_(dates)
             ranged ==
                 IF dates = {} THEN counted
                 ELSE [counted EXCEPT
                         !.date_range_per_symbol = Put(@, file.symbol, <<min_d, max_d>>),
                         !.min_date = IF ~@.some \/ Before(min_d, @.val)
                                      THEN Some(min_d) ELSE @,
                         !.max_date = IF ~@.some \/ Before(@.val, max_d)
                                      THEN Some(max_d) ELSE @]
         IN  IF row_count = 0
             THEN [counted EXCEPT !.empty_data_files = Append(@, file.symbol)]
             ELSE [ranged EXCEPT !.valid_files = @ + 1]

MissingListLimit == 20
EmptyListLimit == 10

Missing_ignores_failed(expected, downloaded, failed) == expected \ downloaded

\* missing = expected_symbols - downloaded_symbols - failed_symbols
Missing(expected, downloaded, failed) == (expected \ downloaded) \ failed

\* what print_report prints of its arguments
print_report(st, expected, failed) ==
    LET downloaded == DOMAIN st.rows_per_file
        missing == Missing(expected, downloaded, failed)
        empties == st.empty_data_files
    IN  [printed |-> TRUE,
         total_files |-> st.total_files,
         valid_files |-> st.valid_files,
         total_rows |-> st.total_rows,
         period |-> IF st.min_date.some /\ st.max_date.some
                    THEN Some(<<st.min_date.val, st.max_date.val>>) ELSE None,
         expected_n |-> Cardinality(expected),
         downloaded_n |-> Cardinality(downloaded),
         failed_n |-> Cardinality(failed),
         missing_n |-> IF missing # {} THEN Some(Cardinality(missing)) ELSE None,
         missing_names |-> IF missing # {} /\ Cardinality(missing) <= MissingListLimit
                           THEN Some(missing) ELSE None,
         empty_data_n |-> Len(empties),
         empty_data_names |-> IF empties # <<>> /\ Len(empties) <= EmptyListLimit
                              THEN Some(empties) ELSE None,
         header_mismatch_n |-> Len(st.header_mismatch),
         parse_errors_n |-> Len(st.parse_errors),
         total_issues |-> Len(empties) + Len(st.header_mismatch)
                            + Len(st.parse_errors)]

Ingestion == <<driver_vars, registry_vars, race_vars, row_vars, hist_vars>>

\* main(): expected_symbols = load_expected_symbols()
LoadExpected ==
    /\ v_pc = "load_expected"
    /\ expected_symbols' = load_expected_symbols(sources.symbols_file)
    /\ v_pc' = "load_failed"
    /\ UNCHANGED <<sources, v_i, stats, failed_symbols, report, Ingestion>>

\* main(): failed_symbols = load_failed_symbols()
LoadFailed ==
    /\ v_pc = "load_failed"
    /\ failed_symbols' = load_failed_symbols(sources.failed_file)
    /\ v_pc' = "glob"
    /\ UNCHANGED <<sources, v_i, stats, expected_symbols, report, Ingestion>>

\* validate_csv_files up to its loop
Glob ==
    /\ v_pc = "glob"
    /\ stats' = [EmptyStats EXCEPT !.total_files = Len(csv_files)]
    /\ v_i' = 0
    /\ v_pc' = "scan"
    /\ UNCHANGED <<sources, expected_symbols, failed_symbols, report, Ingestion>>

\* for i, csv_file in enumerate(csv_files)
ValidateFile ==
    /\ v_pc = "scan"
    /\ v_i < Len(csv_files)
    /\ stats' = ScanFile(stats, csv_files[v_i + 1])
    /\ v_i' = v_i + 1
    /\ UNCHANGED <<sources, v_pc, expected_symbols, failed_symbols, report, Ingestion>>

\* return stats; print_report(stats, expected_symbols, failed_symbols); main
\* returns and the process ends with status 0
PrintReport ==
    /\ v_pc = "scan"
    /\ v_i = Len(csv_files)
    /\ report' = print_report(stats, expected_symbols, failed_symbols)
    /\ v_pc' = "done"
    /\ UNCHANGED <<sources, v_i, stats, expected_symbols, failed_symbols, Ingestion>>

InitSpecValidate ==
    /\ csv_files \in Listings
    /\ sources \in [symbols_file : SymbolsFiles, failed_file : FailedFiles]
    /\ v_pc = "load_expected" /\ v_i = 0
    /\ stats = EmptyStats
    /\ expected_symbols = {} /\ failed_symbols = {}
    /\ report = NoReport
    /\ InitStore /\ InitDriver /\ InitRace /\ InitRow

NextValidate ==
    \/ LoadExpected
    \/ LoadFailed
    \/ Glob
    \/ ValidateFile
    \/ PrintReport

SpecValidate == InitSpecValidate /\ [][NextValidate]_vars

----------------------------------------------------------------------------
(* Properties.                                                             *)

\* the price rows file k yields once sanitized and converted, under identity sid
FileRows(k, sid) ==
    LET read == Sanitize(csv_files[k].rows, sid) IN
    {TempRow(read.buffer[n]) : n \in 1..Len(read.buffer)}

Keys(bag) == {Key(r) : r \in BagToSet(bag)}

PreviouslyIngested(k) == \E r \in 1..run : <<r, k>> \in ingested

\* C1: the permanent price store holds at most one record per
\* (symbol identity, trading date), whatever was ingested, re-ingested or
\* rolled back before.
C1_OneRecordPerSymbolAndDay ==
    \A a, b \in BagToSet(prices) :
        /\ CopiesIn(a, prices) = 1
        /\ Key(a) = Key(b) => a = b

\* a file holding the same trading date twice, with different values, has
\* been committed in two runs
C1_Witness ==
    \E k \in 1..Len(csv_files) :
        /\ <<1, k>> \in ingested /\ <<2, k>> \in ingested
        /\ \E a, b \in FileRows(k, 1) : Key(a) = Key(b) /\ a # b
        /\ prices # EmptyBag

\* the step is the commit of file i's transaction
CommitStep == pc = "commit" /\ pc' = "loop"

\* C2: ingesting an artifact that an earlier transaction has committed leaves
\* the store exactly as it was (same records, same row count, no duplicate),
\* and none of its own steps fails: the lookup finds the symbol, sanitizing
\* raises nothing, the staging table can be created and the copy accepts
\* every staged line.
C2_NoOwnFailure ==
    (InTxn /\ PreviouslyIngested(i)) =>
        /\ pc = "select_symbol" => FoundRows(Visible, File.symbol) # {}
        /\ pc = "read_csv" => Sanitize(File.rows, symbol_id).exc = "none"
        /\ pc = "create_temp" => temp_prices = NoTable
        /\ pc = "copy_from" => \A k \in 1..Len(buffer) : LineOk(buffer[k])
        /\ pc \in {"count", "commit"} => tx_prices = EmptyBag

C2_SecondIngestionIsNoOp ==
    /\ []C2_NoOwnFailure
    /\ [][(CommitStep /\ PreviouslyIngested(i)) =>
            (prices' = prices /\ symbols' = symbols)]_vars

\* an artifact with surviving rows has been committed a second time
C2_Witness ==
    /\ pc = "loop" /\ run = 2 /\ i >= 1
    /\ <<1, i>> \in ingested /\ <<2, i>> \in ingested
    /\ FileRows(i, 1) # {}
    /\ files_imported >= 1

\* C3: a file is ingested atomically.  The store changes only in the commit
\* of a file's transaction, which adds, for every key of the file's sanitized
\* rows that the store did not hold, one of the file's rows with that key and
\* nothing else; a step that ends in an error or a cancellation leaves the
\* store as it was and nothing of the transaction behind.
C3_WholeFileOrNothing ==
    [][ /\ (prices' # prices \/ symbols' # symbols) =>
             /\ CommitStep
             /\ \A r \in BagToSet(prices) : CopiesIn(r, prices') = CopiesIn(r, prices)
             /\ BagToSet(prices') \ BagToSet(prices) \subseteq FileRows(i, symbol_id)
             /\ Keys(prices') = Keys(prices) \cup {Key(r) : r \in FileRows(i, symbol_id)}
        /\ (pc' \in {"crashed", "exited"} /\ pc # pc') =>
             /\ prices' = prices /\ symbols' = symbols
             /\ tx_prices' = EmptyBag /\ tx_symbols' = {}
      ]_vars

\* an error struck after the merge had written the file's rows, and the store
\* holds none of them
C3_Witness ==
    /\ pc = "crashed" /\ i = 1 /\ run = 1
    /\ files_imported = 1
    /\ prices = EmptyBag /\ symbols = {}

\* C4: a fatal error in one file does not abort the run; every discovered
\* file is still attempted.  Stated of the end of a run that was not
\* cancelled.
C4_ErrorDoesNotAbortRun ==
    (pc \in {"exited", "crashed"} /\ outcome # "cancelled") => i = Len(csv_files)

\* the step is a resolution of File.symbol returning symbol_id'
ResolveStep == pc \in {"insert_symbol", "select_symbol"} /\ pc' = "read_csv"

\* C5: the registry maps each ticker to one identity and each identity to
\* one ticker; a committed row is never changed or removed; resolving an
\* unknown ticker inserts it under an identity no resolution has returned
\* before; resolving a known ticker returns the identity of its row.
C5_RegistryIsInjective ==
    /\ \A a, b \in Visible : (a.symbol = b.symbol) <=> (a.symbol_id = b.symbol_id)
    /\ \A a, b \in assigned : a.symbol_id = b.symbol_id => a.symbol = b.symbol

C5_StableIdentities ==
    /\ []C5_RegistryIsInjective
    /\ [][ /\ symbols \subseteq symbols'
           /\ ResolveStep =>
                LET known == {s \in Visible : s.symbol = File.symbol}
                    got == [symbol |-> File.symbol, symbol_id |-> symbol_id']
                IN  /\ got \in symbols \cup tx_symbols'
                    /\ known # {} => got \in known /\ tx_symbols' = tx_symbols
                    /\ known = {} =>
                         /\ tx_symbols' = tx_symbols \cup {got}
                         /\ \A a \in assigned : a.symbol_id # symbol_id'
         ]_vars

\* in a later run a known ticker has been resolved again, after an identity
\* given to another ticker was lost to a rollback
C5_Witness ==
    /\ run = 2 /\ pc = "read_csv"
    /\ \E s \in symbols : s.symbol = File.symbol /\ s.symbol_id = symbol_id
    /\ \E a \in assigned : a \notin symbols /\ a.symbol # File.symbol

Returned(c) == r_id[c] # NoId

\* C6 as amended: whatever the interleaving, the registry holds at most one
\* row per ticker, no caller fails on the fallback lookup, every caller whose
\* transaction has committed holds the identity of the one row of its ticker,
\* and a caller that has returned and not yet ended holds the identity of a
\* row it sees.
C6_OneIdentityPerCommittedTicker ==
    /\ \A a, b \in symbols : a.symbol = b.symbol => a = b
    /\ \A c \in Callers :
         /\ r_pc[c] # "failed"
         /\ r_pc[c] = "committed" =>
              [symbol |-> r_ticker[c], symbol_id |-> r_id[c]] \in symbols
         /\ r_pc[c] = "returned" =>
              [symbol |-> r_ticker[c], symbol_id |-> r_id[c]] \in symbols \cup r_tx[c]

\* three callers raced for one ticker: the first to insert rolled back, the
\* other two committed, one by inserting and one by the fallback lookup
C6_Witness ==
    \E c, d, e \in Callers :
        /\ r_ticker[c] = r_ticker[d] /\ r_ticker[d] = r_ticker[e]
        /\ c # d
        /\ r_pc[c] = "committed" /\ r_pc[d] = "committed"
        /\ r_id[c] = r_id[d]
        /\ r_pc[e] = "rolled_back" /\ Returned(e)

\* C6 as claimed: every caller that has returned from resolving a ticker
\* holds the same identity, there is at most one row per ticker and no caller
\* fails.
C6_EveryCallerSameIdentity ==
    /\ \A a, b \in symbols : a.symbol = b.symbol => a = b
    /\ \A c \in Callers : r_pc[c] # "failed"
    /\ \A c, d \in Callers :
         (Returned(c) /\ Returned(d) /\ r_ticker[c] = r_ticker[d]) => r_id[c] = r_id[d]

\* the condition of C10: the four prices parse to numbers in [0, MAX_PRICE)
\* and the volume parses to a number whose truncation is >= 0
C10_Acceptable(row) ==
    /\ \A k \in 1..4 :
         LET p == float_(row[k]) IN
         /\ p.cls = "fin"
         /\ ~p.neg \/ (p.ip = 0 /\ p.micro = 0)
         /\ p.ip < MAX_PRICE
    /\ LET v == float_(row[5]) IN
       v.cls = "fin" /\ (~v.neg \/ v.ip = 0)

\* C10: is_valid_row accepts exactly the acceptable rows, rejects every other
\* row and never raises.
C10_AcceptsExactlyOrRejects ==
    verdict # "none" =>
        verdict = IF C10_Acceptable(in_row) THEN "True" ELSE "False"

\* the step is the operator's cancellation taking effect
CancelStep == outcome # "cancelled" /\ outcome' = "cancelled"

\* C7: cancellation stops the driver only with the open transaction settled
\* as a whole.  The step in which it takes effect leaves no transaction open
\* and the store as it was; the store only ever changes by the commit of a
\* whole file; and after the cancellation the run starts no further file.
C7_CancellationSettlesOpenFile ==
    [][ /\ CancelStep =>
             /\ pc' = "exited"
             /\ tx_prices' = EmptyBag /\ tx_symbols' = {} /\ temp_prices' = NoTable
             /\ prices' = prices /\ symbols' = symbols
        /\ prices' # prices =>
             /\ CommitStep
             /\ Keys(prices') = Keys(prices) \cup {Key(r) : r \in FileRows(i, symbol_id)}
        /\ outcome = "cancelled" =>
             /\ run' = run + 1 /\ pc' = "connect"
             /\ prices' = prices /\ symbols' = symbols
      ]_vars

\* the cancellation arrived after the merge and the counters, before the
\* commit: the file's rows were written and the store holds none of them
C7_Witness ==
    /\ outcome = "cancelled" /\ pc = "exited"
    /\ run = 1 /\ i = 1 /\ files_imported = 1
    /\ FileRows(1, 1) # {}
    /\ prices = EmptyBag

\* rows of file k that survive sanitization
Survivors(k) == Len(Sanitize(csv_files[k].rows, NoId).buffer)

\* C8: between two files, each file processed so far has incremented exactly
\* one counter: files_imported when a row of it survived, files_skipped when
\* none did; and the end-to-end scenario ends with 1 imported, 1 skipped and
\* 29 rows.
C8_ImportedOrSkipped ==
    /\ (pc = "loop" /\ outcome = "none") =>
         /\ files_imported = Cardinality({k \in 1..i : Survivors(k) > 0})
         /\ files_skipped = Cardinality({k \in 1..i : Survivors(k) = 0})
    /\ (csv_files = E2EDirectory /\ pc = "exited" /\ outcome = "ok") =>
         /\ files_imported = 1 /\ files_skipped = 1
         /\ total_rows = E2ERows - 1

\* the end-to-end scenario has run to its summary
C8_Witness ==
    /\ csv_files = E2EDirectory /\ pc = "exited" /\ outcome = "ok"
    /\ files_skipped = 1 /\ Cardinality(BagToSet(prices)) = E2ERows - 1

\* C9: a row whose date does not reduce to a calendar date is rejected by the
\* sanitizer: no line staged in the buffer carries such a date.
C9_BadDateIsNotStaged ==
    \A k \in 1..Len(buffer) : date_in(buffer[k][2]).ok

RECURSIVE SumSurvivors(_)
\* rows that survive sanitization in the files 1..k together
SumSurvivors(k) == IF k = 0 THEN 0 ELSE SumSurvivors(k - 1) + Survivors(k)

\* C11: the count a file reports is the number of its rows that survived
\* sanitization and were staged, whatever the store already held: between two
\* files the run's total is the sum of these counts, and a file that was
\* committed before reports the same count while its merge inserts nothing.
C11_ReportsPreMergeCount ==
    /\ pc \in {"count", "commit"} => rows_imported = Survivors(i)
    /\ (pc = "loop" /\ outcome = "none") => total_rows = SumSurvivors(i)
    /\ (pc = "commit" /\ PreviouslyIngested(i)) =>
         tx_prices = EmptyBag /\ rows_imported = Survivors(i)

\* a file with surviving rows is about to commit a second time: it has been
\* counted in full and has inserted nothing
C11_Witness ==
    /\ run = 2 /\ pc = "commit" /\ <<1, i>> \in ingested
    /\ rows_imported > 0 /\ total_rows >= rows_imported
    /\ tx_prices = EmptyBag /\ prices # EmptyBag

\* the artifact's first line can be read and is not the expected header
Mismatch(file) == file.fault # "head" /\ file.first # Some(EXPECTED_HEADER)

\* C12: scanning an artifact whose first line is not the expected header (or
\* that has no line at all) appends it to the header-mismatch list and changes
\* nothing else of the statistics: total_rows, rows_per_file, valid_files and
\* the date ranges stay as they were; the scan goes on to the next artifact
\* and the pass ends only when every artifact has been scanned.
C12_HeaderMismatchIsolated ==
    /\ [](v_pc = "done" => v_i = Len(csv_files))
    /\ [][ (v_pc = "scan" /\ v_i' = v_i + 1 /\ Mismatch(csv_files[v_i + 1])) =>
             /\ stats' = [stats EXCEPT !.header_mismatch =
                            Append(@, <<csv_files[v_i + 1].symbol,
                                        csv_files[v_i + 1].first>>)]
             /\ stats'.total_rows = stats.total_rows
             /\ stats'.rows_per_file = stats.rows_per_file
             /\ stats'.valid_files = stats.valid_files
             /\ stats'.min_date = stats.min_date
             /\ stats'.max_date = stats.max_date
             /\ stats'.date_range_per_symbol = stats.date_range_per_symbol
             /\ v_pc' = "scan"
         ]_vars

\* an artifact with no line at all was listed as a header mismatch, and the
\* artifact scanned after it was counted as valid
C12_Witness ==
    /\ v_pc = "done" /\ Len(csv_files) = 2
    /\ csv_files[1].first = None /\ csv_files[1].fault = "none"
    /\ stats.header_mismatch = <<<<csv_files[1].symbol, None>>>>
    /\ stats.valid_files = 1 /\ stats.total_rows > 0
    /\ DOMAIN stats.rows_per_file = {csv_files[2].symbol}

\* C13 as amended: when the symbols counted from the artifacts, the failed
\* symbols and the rest partition the expected symbols, the pass computes
\* exactly missing = expected - ingested - failed, whose size is
\* |expected| - |ingested| - |failed|; it prints that size when the set is
\* not empty, and prints the symbols themselves only when there are at most
\* MissingListLimit of them.
C13_ReportsMissingUpToLimit ==
    LET d == DOMAIN stats.rows_per_file
        e == expected_symbols
        f == failed_symbols
        missing == {x \in e : x \notin d /\ x \notin f}
        n == Cardinality(missing)
    IN  (v_pc = "done" /\ d \subseteq e /\ f \subseteq e /\ d \cap f = {}) =>
            /\ n = Cardinality(e) - Cardinality(d) - Cardinality(f)
            /\ report.missing_n.some <=> n > 0
            /\ report.missing_n.some => report.missing_n.val = n
            /\ report.missing_names.some <=> (n > 0 /\ n <= MissingListLimit)
            /\ report.missing_names.some => report.missing_names.val = missing

\* a partition with ingested, failed and more missing symbols than the report
\* lists by name has been reported
C13_Witness ==
    LET d == DOMAIN stats.rows_per_file
        e == expected_symbols
        f == failed_symbols
    IN  /\ v_pc = "done" /\ d \subseteq e /\ f \subseteq e /\ d \cap f = {}
        /\ d # {} /\ f # {}
        /\ report.missing_n.some /\ report.missing_n.val > MissingListLimit
        /\ ~report.missing_names.some

\* C13 as claimed: under the same partition the pass reports exactly the set
\* missing and its size.
C13_ReportsExactlyMissing ==
    LET d == DOMAIN stats.rows_per_file
        e == expected_symbols
        f == failed_symbols
        missing == {x \in e : x \notin d /\ x \notin f}
    IN  (v_pc = "done" /\ d \subseteq e /\ f \subseteq e /\ d \cap f = {}
         /\ missing # {}) =>
            /\ report.missing_names.some /\ report.missing_names.val = missing
            /\ report.missing_n.some
            /\ report.missing_n.val = Cardinality(e) - Cardinality(d) - Cardinality(f)

\* C14: over the artifacts of the end-to-end scenario the pass reports
\* valid_files = 1, total_rows = 29 (the rows ingestion imports), the dates
\* 2000-01-01 and 2000-01-30, and BBB among the empty-data files.
C14_ScenarioTotals ==
    (v_pc = "done" /\ csv_files \in {E2EArtifacts, Reverse(E2EArtifacts)}) =>
        /\ stats.valid_files = 1
        /\ stats.total_rows = E2ERows - 1
        /\ stats.min_date = Some(<<2000, 1, 1>>)
        /\ stats.max_date = Some(<<2000, 1, E2ERows>>)
        /\ stats.empty_data_files = <<"BBB">>
        /\ report.empty_data_names = Some(<<"BBB">>)

\* C15: a configuration failure ends the process at startup.  With the
\* expected-symbol source missing the validation pass gets no further than
\* loading it; with the store unreachable ingestion ends in an error with no
\* artifact processed.
C15_ConfigurationFailureIsFatal ==
    /\ (v_pc # "idle" /\ ~sources.symbols_file.exists) => v_pc = "load_expected"
    /\ (pc = "crashed" /\ i = 0) =>
         /\ outcome = "error"
         /\ \A k \in 1..Len(csv_files) : <<run, k>> \notin ingested

\* the files whose transaction has committed in the current run
Committed == {k \in 1..Len(csv_files) : <<run, k>> \in ingested}

RECURSIVE SumOver(_)
\* rows that survive sanitization in the files of K together
SumOver(K) ==
    IF K = {} THEN 0
    ELSE LET k == CHOOSE x \in K : TRUE IN Survivors(k) + SumOver(K \ {k})

\* C16: after a cancellation the counters of the summary account for the
\* committed files only: files_imported counts the committed files with
\* surviving rows, files_skipped the committed files without, and total_rows
\* the surviving rows of the committed files.
C16_CountersOnlyCommittedFiles ==
    (pc = "exited" /\ outcome = "cancelled") =>
        /\ files_imported = Cardinality({k \in Committed : Survivors(k) > 0})
        /\ files_skipped = Cardinality({k \in Committed : Survivors(k) = 0})
        /\ total_rows = SumOver(Committed)

\* C17: import is append/skip only.  No step removes a committed price
\* record, changes its number of copies, or adds a record with the key of a
\* committed one: whatever a later file carries for the same symbol and date,
\* and whether its ingestion commits, fails or is cancelled.
C17_AppendSkipOnly ==
    [][ \A r \in BagToSet(prices) :
            /\ CopiesIn(r, prices') = CopiesIn(r, prices)
            /\ \A q \in BagToSet(prices') : Key(q) = Key(r) => q = r
      ]_vars

\* a later ingestion has staged and merged, for the key of a committed record,
\* a row with other values, and the committed record is still there alone
C17_Witness ==
    /\ run = 2 /\ pc = "count" /\ temp_prices.exists
    /\ \E t \in Range(temp_prices.rows) : \E r \in BagToSet(prices) :
         Key(t) = Key(r) /\ t # r
    /\ tx_prices = EmptyBag

\* C18: the staging table exists only inside the transaction that created
\* it.  Outside the statements that follow its creation there is none (so
\* none at the start of a file's transaction and none when it is created),
\* and while it exists it holds rows of the current file only.
C18_StagingIsTransactionScoped ==
    /\ pc \notin {"copy_from", "merge", "count", "commit"} => temp_prices = NoTable
    /\ temp_prices.exists => Range(temp_prices.rows) \subseteq FileRows(i, symbol_id)

\* the second file of a run is about to create its staging table after the
\* first one staged rows and committed
C18_Witness ==
    /\ pc = "create_temp" /\ i = 2 /\ <<run, 1>> \in ingested
    /\ Survivors(1) > 0 /\ Survivors(2) > 0
    /\ temp_prices = NoTable

\* C19: every line the sanitizer writes to the buffer is one the staging
\* columns accept (a calendar date, decimal prices, an integer volume), so
\* the bulk transfer of the accepted rows does not fail.
C19_AcceptedRowsCanBeStaged ==
    \A k \in 1..Len(buffer) :
        /\ int8_in(buffer[k][7]).ok
        /\ date_in(buffer[k][2]).ok
        /\ \A c \in 3..6 : numeric_in(buffer[k][c]).ok

====
